---- MODULE Spec2Model ----
(***************************************************************************)
(* A model of the DC analysis core of ahkab (src/ahkab/dc_analysis.py):    *)
(* the sweep controller dc_analysis, the operating point controller        *)
(* op_analysis and the convergence-aid driver dc_solve.                     *)
(*                                                                         *)
(* The Newton-Raphson kernel mdn_solver is called by dc_solve; at this     *)
(* level its result is an input: it returns converged, returns after MAXIT *)
(* iterations without converging, or raises.  Matrices and vectors are     *)
(* represented by what distinguishes them:                                 *)
(*   - mna + Gmin by the conductance added on the node rows (GVal),        *)
(*   - the constant term by the factor applied to Ndc (per mille) and the  *)
(*     DC values of the sources Ndc was assembled from,                    *)
(*   - a vector x by where it comes from (XVal).                           *)
(***************************************************************************)
EXTENDS Integers, Sequences, FiniteSets, TLC

(***************************************************************************)
(* Bounds of the exploration.                                              *)
(***************************************************************************)
\* MAXIT handed to mdn_solver (options.dc_max_nr_iter)
MaxNrIter == 1
\* start and stop of a sweep are drawn from 1..MaxSweepValue
MaxSweepValue == 3
\* the number of unknowns of the systems the kernel's functions are applied to
MaxVecLen == 2
\* the number of pairs in locked_nodes
MaxLockedPairs == 2
\* MAXIT of a direct call of mdn_solver is drawn from 1..MaxKernelIter
MaxKernelIter == 3
\* the number of elements of the circuits the system is assembled for
MaxElements == 2

(***************************************************************************)
(* Program constants.                                                      *)
(***************************************************************************)
\* the last index of a stepping strategy, lines 224 and 227
LastStepIndex == 9

\* options.gmin = 10^-k for k in GminExps
GminExps == {3, 12}
\* the values of step
StepValues == {-1, 0, 1}
\* verbose of a direct op_analysis call: the default, debug
VerboseValues == {3, 6}
\* the sweep type labels of options (options.dc_lin_step, options.dc_log_step)
dc_lin_step == "LIN"
dc_log_step == "LOG"
\* sweep_type as the caller writes it
SweepTypes == {"LINEAR", "lin", "LOGARITHMIC", "LOG", "DEC"}
\* source as the caller writes it: <<first character, rest>>
SourceNames == {<<"V", "1">>, <<"i", "1">>, <<"v", "2">>, <<"r", "1">>}

(***************************************************************************)
(* Values.                                                                 *)
(***************************************************************************)
\* a value of the sweep axis: a plain number a, or the k-th of n steps of the
\* logarithmic axis from a to b, 10^(log10(a) + k*(log10(b)-log10(a))/n)
LinV(v) == [scale |-> "lin", a |-> v, b |-> 0, k |-> 0, n |-> 0]
LogV(a, b, k, n) == [scale |-> "log", a |-> a, b |-> b, k |-> k, n |-> n]

\* the conductance added to the node rows of mna: 0 or 10^exp
GZero == [zero |-> TRUE, exp |-> 0]
Pow10(e) == [zero |-> FALSE, exp |-> e]

\* a constant term: factor/1000 * Ndc, Ndc assembled from the sources' DC values
NVal(factor, Ndc) == [factor |-> factor, Ndc |-> Ndc]
NNone == NVal(0, [vdc |-> LinV(0), idc |-> LinV(0)])

\* a vector x: None, the zero vector, the guess of dc_guess.get_dc_guess, a
\* vector of the caller (of the right size or not), the vector a converged run
\* of mdn_solver returns, or the last iterate of a run that did not converge,
\* the last two with the DC values of the sources the system was assembled from
XVal(kind, Ndc) == [kind |-> kind, Ndc |-> Ndc]
XNone == XVal("None", NNone.Ndc)
XZeros == XVal("zeros", NNone.Ndc)
XGuess == XVal("guess", NNone.Ndc)
XUser == XVal("user", NNone.Ndc)
XUserBad == XVal("userbad", NNone.Ndc)
XSol(N) == XVal("sol", N.Ndc)
XIterate(N) == XVal("iterate", N.Ndc)

(***************************************************************************)
(* Conversions.                                                            *)
(***************************************************************************)
\* source[0].lower(), line 308
Lower(c) == CASE c = "V" -> "v" [] c = "I" -> "i" [] c = "R" -> "r" [] OTHER -> c

\* sweep_type.upper()[:3], line 318
Upper3(s) ==
  CASE s = "LINEAR" -> "LIN"
    [] s = "lin" -> "LIN"
    [] s = "LIN" -> "LIN"
    [] s = "LOGARITHMIC" -> "LOG"
    [] s = "LOG" -> "LOG"
    [] s = "log" -> "LOG"
    [] OTHER -> s

\* int(numpy.log(10^-k)): the natural logarithm, truncated towards zero
\* (ln 10 = 2.302585...), line 277
IntLnPow10(k) == -((k * 2302585) \div 1000000)

\* range(a, 0) reversed, lines 277-278: -1, -2, ..., a
ReversedRange(a) == [i \in 1..(IF a < 0 THEN -a ELSE 0) |-> -i]

VARIABLES
  options,   \* the configuration (module options)
  circ,      \* the DC values of the circuit's sources V1 and I1
  call,      \* the call under way and its arguments
  pc,        \* the position of the program
  outcome,   \* "running", "returned", or the exception that ended the call
  dc,        \* the locals of dc_analysis
  op,        \* the locals of op_analysis
  ds,        \* the locals of dc_solve
  fn         \* the locals of a function of the Newton-Raphson kernel or of
             \* the assembly of the system, when it is the one called

vars == <<options, circ, call, pc, outcome, dc, op, ds, fn>>


(***************************************************************************)
(* Frames of the functions before they are called.                         *)
(***************************************************************************)
NoStrategy == [enabled |-> FALSE, failed |-> FALSE]
NoStepping == [enabled |-> FALSE, failed |-> FALSE, factors |-> <<>>, index |-> 0]

DsIdle ==
  [Gmin |-> GZero, Ndc |-> NNone.Ndc, verbose |-> 0, MAXIT |-> 0,
   x |-> XNone, error |-> "unbound", converged |-> FALSE,
   tot_iterations |-> 0, n_iter |-> 0, convergence_by_node |-> "unbound",
   invocations |-> 0,
   standard_solving |-> NoStrategy, gmin_stepping |-> NoStepping,
   source_stepping |-> NoStepping,
   passed |-> FALSE, mna_to_pass |-> GZero, N_to_pass |-> NNone]

OpIdle ==
  [x0 |-> XNone, guess |-> FALSE, verbose |-> 0, caller |-> "none",
   guessed |-> FALSE, pass |-> 0, dc_solve_calls |-> <<>>,
   x1 |-> XNone, solved1 |-> FALSE, x2 |-> XNone, solved2 |-> FALSE,
   check_ok |-> TRUE, opsolution |-> XNone, returned |-> "unset"]

DcIdle ==
  [start |-> 0, stop |-> 0, step |-> 0, sweep_type |-> "", points |-> 0,
   source_elem |-> "none", initial_value |-> LinV(0), x |-> XNone,
   sol |-> <<>>, index |-> 0, solved |-> "unbound", sweep_value |-> LinV(0),
   op_calls |-> <<>>, ret |-> [none |-> TRUE, sol |-> <<>>]]

\* no function of the kernel is under way
FnIdle == [name |-> "none"]

\* an exception nothing catches ends the call: no frame below restores anything
Raise(e) ==
  /\ pc' = "done"
  /\ outcome' = e

(***************************************************************************)
(* dc_solve, lines 101-232.                                                *)
(***************************************************************************)
\* lines 275-281
get_solve_methods ==
  [standard_solving |-> [enabled |-> FALSE, failed |-> FALSE],
   gmin_stepping |-> [enabled |-> FALSE, failed |-> FALSE,
                      factors |-> ReversedRange(IntLnPow10(options.gmin)),
                      index |-> 0],
   source_stepping |-> [enabled |-> FALSE, failed |-> FALSE,
                        factors |-> <<1, 5, 10, 30, 100, 300, 500, 700, 800, 900>>,
                        index |-> 0]]

\* a mutant of set_next_solve_method: source stepping is tried before Gmin
\* stepping
set_next_solve_method_source_first(m) ==
  LET a == IF m.standard_solving.enabled
             THEN [m EXCEPT !.standard_solving.enabled = FALSE,
                            !.standard_solving.failed = TRUE]
           ELSE IF m.gmin_stepping.enabled
             THEN [m EXCEPT !.gmin_stepping.enabled = FALSE,
                            !.gmin_stepping.failed = TRUE]
           ELSE IF m.source_stepping.enabled
             THEN [m EXCEPT !.source_stepping.enabled = FALSE,
                            !.source_stepping.failed = TRUE]
           ELSE m
  IN IF ~a.standard_solving.failed /\ options.use_standard_solve_method
       THEN [a EXCEPT !.standard_solving.enabled = TRUE]
     ELSE IF ~a.source_stepping.failed /\ options.use_source_stepping
       THEN [a EXCEPT !.source_stepping.enabled = TRUE]
     ELSE IF ~a.gmin_stepping.failed /\ options.use_gmin_stepping
       THEN [a EXCEPT !.gmin_stepping.enabled = TRUE]
     ELSE a

\* a mutant of set_next_solve_method: the strategy marked failed is left
\* enabled
set_next_solve_method_keep_enabled(m) ==
  LET a == IF m.standard_solving.enabled
             THEN [m EXCEPT !.standard_solving.failed = TRUE]
           ELSE IF m.gmin_stepping.enabled
             THEN [m EXCEPT !.gmin_stepping.failed = TRUE]
           ELSE IF m.source_stepping.enabled
             THEN [m EXCEPT !.source_stepping.failed = TRUE]
           ELSE m
  IN IF ~a.standard_solving.failed /\ options.use_standard_solve_method
       THEN [a EXCEPT !.standard_solving.enabled = TRUE]
     ELSE IF ~a.gmin_stepping.failed /\ options.use_gmin_stepping
       THEN [a EXCEPT !.gmin_stepping.enabled = TRUE]
     ELSE IF ~a.source_stepping.failed /\ options.use_source_stepping
       THEN [a EXCEPT !.source_stepping.enabled = TRUE]
     ELSE a

\* lines 245-267: the enabled strategy is marked failed, then the first
\* configured strategy that has not failed is enabled
set_next_solve_method(m) ==
  LET a == IF m.standard_solving.enabled
             THEN [m EXCEPT !.standard_solving.enabled = FALSE,
                            !.standard_solving.failed = TRUE]
           ELSE IF m.gmin_stepping.enabled
             THEN [m EXCEPT !.gmin_stepping.enabled = FALSE,
                            !.gmin_stepping.failed = TRUE]
           ELSE IF m.source_stepping.enabled
             THEN [m EXCEPT !.source_stepping.enabled = FALSE,
                            !.source_stepping.failed = TRUE]
           ELSE m
  IN IF ~a.standard_solving.failed /\ options.use_standard_solve_method
       THEN [a EXCEPT !.standard_solving.enabled = TRUE]
     ELSE IF ~a.gmin_stepping.failed /\ options.use_gmin_stepping
       THEN [a EXCEPT !.gmin_stepping.enabled = TRUE]
     ELSE IF ~a.source_stepping.failed /\ options.use_source_stepping
       THEN [a EXCEPT !.source_stepping.enabled = TRUE]
     ELSE a

\* lines 269-273
more_solve_methods_available(m) ==
  ~ ( /\ (m.standard_solving.failed \/ ~options.use_standard_solve_method)
      /\ (m.gmin_stepping.failed \/ ~options.use_gmin_stepping)
      /\ (m.source_stepping.failed \/ ~options.use_source_stepping) )

\* the strategies of a frame
Methods(f) ==
  [standard_solving |-> f.standard_solving, gmin_stepping |-> f.gmin_stepping,
   source_stepping |-> f.source_stepping]

\* mdn_solver, lines 583-626, as dc_solve sees it: the results a call can have.
\* A vector of the wrong size is refused before the first iteration (line 591);
\* a run that converges does so in 1..MAXIT iterations, a run that does not has
\* made MAXIT iterations; numpy.linalg.inv may raise LinAlgError, a device
\* model OverflowError.
mdn_solver(x, mna, T, MAXIT) ==
  IF x.kind = "userbad"
    THEN {[raised |-> "Exception", x |-> x, error |-> "unbound", converged |-> FALSE,
           n_iter |-> 0, convergence_by_node |-> "unbound"]}
    ELSE {[raised |-> "", x |-> XSol(T), error |-> "residuo", converged |-> TRUE,
           n_iter |-> n, convergence_by_node |-> "empty"] : n \in 1..MAXIT}
         \cup
         {[raised |-> "", x |-> XIterate(T), error |-> "residuo",
           converged |-> FALSE, n_iter |-> MAXIT, convergence_by_node |-> "empty"]}
         \cup
         {[raised |-> e, x |-> x, error |-> "unbound", converged |-> FALSE,
           n_iter |-> 0, convergence_by_node |-> "unbound"] :
            e \in {"LinAlgError", "OverflowError"}}

\* lines 128-175: the frame of dc_solve(mna, N, circ, Gmin=Gmin, x0=x0, verbose=verbose)
\* on entry to the loop. The circuit of the model has no time dependent source,
\* so Tt is zero and Ndc is the N assembled from the sources' DC values.
DcSolveFrame(Gmin, x0, verbose) ==
  LET m == set_next_solve_method(get_solve_methods)
  IN [DsIdle EXCEPT
        !.Gmin = Gmin, !.Ndc = circ, !.verbose = verbose, !.MAXIT = MaxNrIter,
        !.x = IF x0.kind = "None" THEN XZeros ELSE x0,
        !.converged = FALSE,
        !.standard_solving = m.standard_solving,
        !.gmin_stepping = m.gmin_stepping,
        !.source_stepping = m.source_stepping]

\* lines 178-189: the system of this turn of the loop; with no strategy enabled
\* mna_to_pass and N_to_pass keep the values of the turn before
SystemToPass(f) ==
  IF f.standard_solving.enabled
    THEN [f EXCEPT !.passed = TRUE, !.mna_to_pass = f.Gmin,
                   !.N_to_pass = NVal(1000, f.Ndc)]
  ELSE IF f.gmin_stepping.enabled
    THEN [f EXCEPT !.passed = TRUE,
                   !.mna_to_pass = Pow10(f.gmin_stepping.factors[f.gmin_stepping.index + 1]),
                   !.N_to_pass = NVal(1000, f.Ndc)]
  ELSE IF f.source_stepping.enabled
    THEN [f EXCEPT !.passed = TRUE, !.mna_to_pass = f.Gmin,
                   !.N_to_pass = NVal(f.source_stepping.factors[f.source_stepping.index + 1],
                                      f.Ndc)]
  ELSE f

\* a mutant of AfterSolver: a converged step of source stepping advances the
\* index of Gmin stepping too
AfterSolverBothIndices(f) ==
  IF ~f.converged
    THEN IF more_solve_methods_available(Methods(f))
           THEN LET m == set_next_solve_method(Methods(f))
                IN [frame |-> [f EXCEPT !.standard_solving = m.standard_solving,
                                        !.gmin_stepping = m.gmin_stepping,
                                        !.source_stepping = m.source_stepping],
                    leave |-> FALSE]
           ELSE [frame |-> [f EXCEPT !.x = XNone, !.error = "None"], leave |-> TRUE]
  ELSE IF f.source_stepping.enabled /\ f.source_stepping.index # LastStepIndex
    THEN [frame |-> [f EXCEPT !.converged = FALSE,
                              !.source_stepping.index = f.source_stepping.index + 1,
                              !.gmin_stepping.index = f.gmin_stepping.index + 1],
          leave |-> FALSE]
  ELSE IF f.gmin_stepping.enabled /\ f.gmin_stepping.index # LastStepIndex
    THEN [frame |-> [f EXCEPT !.converged = FALSE,
                              !.gmin_stepping.index = f.gmin_stepping.index + 1],
          leave |-> FALSE]
  ELSE [frame |-> f, leave |-> TRUE]

\* a mutant of AfterSolver: the count of iterations starts again with each
\* strategy
AfterSolverRestartCount(f) ==
  IF ~f.converged
    THEN IF more_solve_methods_available(Methods(f))
           THEN LET m == set_next_solve_method(Methods(f))
                IN [frame |-> [f EXCEPT !.standard_solving = m.standard_solving,
                                        !.gmin_stepping = m.gmin_stepping,
                                        !.source_stepping = m.source_stepping,
                                        !.tot_iterations = 0],
                    leave |-> FALSE]
           ELSE [frame |-> [f EXCEPT !.x = XNone, !.error = "None"], leave |-> TRUE]
  ELSE IF f.source_stepping.enabled /\ f.source_stepping.index # LastStepIndex
    THEN [frame |-> [f EXCEPT !.converged = FALSE,
                              !.source_stepping.index = f.source_stepping.index + 1],
          leave |-> FALSE]
  ELSE IF f.gmin_stepping.enabled /\ f.gmin_stepping.index # LastStepIndex
    THEN [frame |-> [f EXCEPT !.converged = FALSE,
                              !.gmin_stepping.index = f.gmin_stepping.index + 1],
          leave |-> FALSE]
  ELSE [frame |-> f, leave |-> TRUE]

\* lines 205-231: what the loop does with the result of mdn_solver; the frame
\* and whether the loop is left
AfterSolver(f) ==
  IF ~f.converged
    THEN IF more_solve_methods_available(Methods(f))
           THEN LET m == set_next_solve_method(Methods(f))
                IN [frame |-> [f EXCEPT !.standard_solving = m.standard_solving,
                                        !.gmin_stepping = m.gmin_stepping,
                                        !.source_stepping = m.source_stepping],
                    leave |-> FALSE]
           ELSE [frame |-> [f EXCEPT !.x = XNone, !.error = "None"], leave |-> TRUE]
  ELSE IF f.source_stepping.enabled /\ f.source_stepping.index # LastStepIndex
    THEN [frame |-> [f EXCEPT !.converged = FALSE,
                              !.source_stepping.index = f.source_stepping.index + 1],
          leave |-> FALSE]
  ELSE IF f.gmin_stepping.enabled /\ f.gmin_stepping.index # LastStepIndex
    THEN [frame |-> [f EXCEPT !.converged = FALSE,
                              !.gmin_stepping.index = f.gmin_stepping.index + 1],
          leave |-> FALSE]
  ELSE [frame |-> f, leave |-> TRUE]

\* a mutant of DcSolveArgs: the solve without Gmin starts from x0 again
DcSolveArgsFromX0(f) ==
  IF f.pass = 1
    THEN [Gmin |-> Pow10(-options.gmin), x0 |-> f.x0]
    ELSE [Gmin |-> GZero, x0 |-> f.x0]

\* lines 432-433 and 440: the Gmin matrix and the initial guess op_analysis
\* hands to dc_solve: build_gmin_matrix(circ, options.gmin, ...) and x0 for the
\* first solve, None and x1 for the second
DcSolveArgs(f) ==
  IF f.pass = 1
    THEN [Gmin |-> Pow10(-options.gmin), x0 |-> f.x0]
    ELSE [Gmin |-> GZero, x0 |-> f.x1]

\* lines 128-175: dc_solve is entered
DcSolveEnter ==
  /\ pc = "dc_solve"
  /\ LET args == DcSolveArgs(op)
     IN /\ ds' = DcSolveFrame(args.Gmin, args.x0, op.verbose)
        /\ op' = [op EXCEPT !.dc_solve_calls =
                     Append(@, [Gmin |-> args.Gmin, x0 |-> args.x0,
                                returned |-> FALSE, converged |-> FALSE,
                                x |-> XNone])]
  /\ pc' = "dc_solve_loop"
  /\ UNCHANGED <<fn, options, circ, call, outcome, dc>>

\* lines 177-231: one turn of the loop while(not converged); invocations
\* counts the calls of mdn_solver of line 191
DcSolveIter ==
  /\ pc = "dc_solve_loop"
  /\ LET f == SystemToPass(ds)
         noStrategy == ~f.passed
         offLadder == /\ ~ds.standard_solving.enabled
                      /\ ds.gmin_stepping.enabled
                      /\ ds.gmin_stepping.index >= Len(ds.gmin_stepping.factors)
     IN IF offLadder
          THEN \* factors[index], lines 183-184, outside the try
               Raise("IndexError") /\ UNCHANGED <<fn, options, circ, call, dc, op, ds>>
        ELSE IF noStrategy
          THEN \* mna_to_pass is read before it was ever assigned, line 191
               Raise("UnboundLocalError") /\ UNCHANGED <<fn, options, circ, call, dc, op, ds>>
        ELSE \E r \in mdn_solver(ds.x, f.mna_to_pass, f.N_to_pass, ds.MAXIT) :
          LET called == [f EXCEPT !.invocations = ds.invocations + 1]
              g == IF r.raised = ""
                     THEN [called EXCEPT
                             !.x = r.x, !.error = r.error, !.converged = r.converged,
                             !.n_iter = r.n_iter,
                             !.convergence_by_node = r.convergence_by_node,
                             !.tot_iterations = ds.tot_iterations + r.n_iter]
                     ELSE [called EXCEPT !.n_iter = 0, !.converged = FALSE]
              a == AfterSolver(g)
          IN IF r.raised \notin {"", "LinAlgError", "OverflowError"}
               THEN \* lines 194-203 catch nothing else
                    /\ Raise(r.raised)
                    /\ ds' = called
                    /\ UNCHANGED <<fn, options, circ, call, dc, op>>
             ELSE IF ~g.converged /\ g.verbose = 6 /\ g.convergence_by_node = "unbound"
               THEN \* line 207 reads convergence_by_node, which only line 191 assigns
                    /\ Raise("UnboundLocalError")
                    /\ ds' = g
                    /\ UNCHANGED <<fn, options, circ, call, dc, op>>
             ELSE /\ ds' = a.frame
                  /\ pc' = IF a.leave THEN "dc_solve_return" ELSE "dc_solve_loop"
                  /\ UNCHANGED <<fn, options, circ, call, outcome, dc, op>>


(***************************************************************************)
(* op_analysis, lines 400-471.                                             *)
(***************************************************************************)
\* the frame of op_analysis(circ, x0=x0, guess=guess, verbose=verbose)
OpFrame(x0, guess, verbose, caller) ==
  [OpIdle EXCEPT !.x0 = x0, !.guess = guess, !.verbose = verbose, !.caller = caller]

\* lines 409-432: the guess is dropped when options.dc_use_guess is off, the
\* system is assembled, and x0 is the guess of dc_guess when none was given
OpAnalysisEnter ==
  /\ pc = "op_analysis"
  /\ LET guess == IF ~options.dc_use_guess THEN FALSE ELSE op.guess
         guessed == op.x0.kind = "None" /\ guess
     IN op' = [op EXCEPT !.guess = guess, !.guessed = guessed,
                         !.x0 = IF guessed THEN XGuess ELSE op.x0,
                         !.pass = 1]
  /\ pc' = "dc_solve"
  /\ UNCHANGED <<fn, options, circ, call, outcome, dc, ds>>

\* line 232 and lines 433-442: dc_solve returns (x, error, converged,
\* tot_iterations); after the solve with Gmin the solve without Gmin follows
\* when the first converged
DcSolveReturn ==
  /\ pc = "dc_solve_return"
  /\ LET done == [op EXCEPT !.dc_solve_calls[Len(op.dc_solve_calls)] =
                      [@ EXCEPT !.returned = TRUE, !.converged = ds.converged,
                                !.x = ds.x]]
     IN IF op.pass = 1
          THEN /\ op' = [done EXCEPT !.x1 = ds.x, !.solved1 = ds.converged,
                                     !.pass = IF ds.converged THEN 2 ELSE 1,
                                     !.solved2 = FALSE]
               /\ pc' = IF ds.converged THEN "dc_solve" ELSE "op_finish"
          ELSE /\ op' = [done EXCEPT !.x2 = ds.x, !.solved2 = ds.converged]
               /\ pc' = "op_finish"
  /\ ds' = DsIdle
  /\ UNCHANGED <<fn, options, circ, call, outcome, dc>>

\* a mutant of OpSolution: the solution with Gmin is returned when the check
\* of the two solutions fails
OpSolutionOp1OnBadCheck(f, check_ok) ==
  IF f.solved1 /\ (~f.solved2 \/ ~check_ok)
    THEN [f EXCEPT !.opsolution = f.x1, !.returned = "op1", !.check_ok = check_ok]
  ELSE IF f.solved1 /\ f.solved2
    THEN [f EXCEPT !.opsolution = f.x2, !.returned = "op2", !.check_ok = check_ok]
  ELSE [f EXCEPT !.opsolution = XNone, !.returned = "None"]

\* lines 444-464: the solution op_analysis returns; badvars of
\* results.op_solution.gmin_check is empty or not
OpSolution(f, check_ok) ==
  IF f.solved1 /\ ~f.solved2
    THEN [f EXCEPT !.opsolution = f.x1, !.returned = "op1"]
  ELSE IF f.solved1 /\ f.solved2
    THEN [f EXCEPT !.opsolution = f.x2, !.returned = "op2", !.check_ok = check_ok]
  ELSE [f EXCEPT !.opsolution = XNone, !.returned = "None"]

\* lines 444-471: op_analysis returns to its caller
OpFinish ==
  /\ pc = "op_finish"
  /\ \E check_ok \in BOOLEAN :
       /\ (~(op.solved1 /\ op.solved2) => check_ok)
       /\ op' = OpSolution(op, check_ok)
  /\ IF op.caller = "dc_analysis"
       THEN pc' = "dc_point" /\ UNCHANGED outcome
       ELSE pc' = "done" /\ outcome' = "returned"
  /\ UNCHANGED <<fn, options, circ, call, dc, ds>>


(***************************************************************************)
(* dc_analysis, lines 283-398.                                             *)
(***************************************************************************)
\* the circuit of the model holds the voltage source V1 and the current
\* source I1; lines 331-341 look the swept source up by type and descr
FindSource(elem_type, elem_descr) ==
  IF elem_descr = "1" /\ elem_type \in {"v", "i"} THEN elem_type ELSE "none"

\* lines 308-344: the exception the arguments are refused with, "" when the
\* sweep is started
RefuseSweep(c) ==
  LET elem_type == Lower(c.source[1])
      elem_descr == c.source[2]
      sweep_type == Upper3(c.sweep_type)
  IN IF c.sweep_type = dc_log_step /\ c.stop - c.start < 0 THEN "SystemExit"
     ELSE IF (c.stop - c.start) * c.step < 0 THEN "ValueError"
     ELSE IF c.step = 0 THEN "ZeroDivisionError"
     ELSE IF sweep_type # dc_log_step /\ sweep_type # dc_lin_step THEN "SystemExit"
     ELSE IF elem_type # "v" /\ elem_type # "i" THEN "SystemExit"
     ELSE IF FindSource(elem_type, elem_descr) = "none" THEN "SystemExit"
     ELSE ""

\* the value of the swept source, lines 346-349 and 368-371
SourceValue(c, source_elem) == IF source_elem = "v" THEN c.vdc ELSE c.idc
SetSourceValue(c, source_elem, v) ==
  IF source_elem = "v" THEN [c EXCEPT !.vdc = v] ELSE [c EXCEPT !.idc = v]

\* utilities.lin_axis_iterator and utilities.log_axis_iterator: the k-th value
\* of the axis, k = 0 .. points-1
SweepValue(f, k) ==
  IF f.sweep_type = dc_log_step
    THEN LogV(f.start, f.stop, k, f.points - 1)
    ELSE LinV(f.start + k * f.step)

\* lines 305-360: the arguments are checked, the source is located, its DC
\* value is saved
DcAnalysisEnter ==
  /\ pc = "dc_analysis"
  /\ LET refused == RefuseSweep(call)
     IN IF refused # ""
          THEN Raise(refused) /\ UNCHANGED dc
          ELSE LET source_elem == FindSource(Lower(call.source[1]), call.source[2])
               IN /\ dc' = [DcIdle EXCEPT
                              !.start = call.start, !.stop = call.stop,
                              !.step = call.step,
                              !.points = (call.stop - call.start) \div call.step + 1,
                              !.sweep_type = Upper3(call.sweep_type),
                              !.source_elem = source_elem,
                              !.initial_value = SourceValue(circ, source_elem),
                              !.x = call.x0]
                  /\ pc' = "dc_sweep"
                  /\ UNCHANGED outcome
  /\ UNCHANGED <<fn, options, circ, call, op, ds>>

\* lines 366-373: the next value of the sweep is set on the source and
\* op_analysis is called on the circuit, or the loop ends
DcSweepNext ==
  /\ pc = "dc_sweep"
  /\ IF dc.index < dc.points
       THEN LET sweep_value == SweepValue(dc, dc.index)
            IN /\ dc' = [dc EXCEPT !.index = dc.index + 1, !.sweep_value = sweep_value]
               /\ circ' = SetSourceValue(circ, dc.source_elem, sweep_value)
               /\ op' = OpFrame(dc.x, call.guess, 0, "dc_analysis")
               /\ pc' = "op_analysis"
       ELSE /\ pc' = "dc_exit"
            /\ UNCHANGED <<circ, dc, op>>
  /\ UNCHANGED <<fn, options, call, outcome, ds>>

\* a mutant of SweepPoint: a skipped point is tried again
SweepPointRetry(f, x) ==
  IF x.kind = "None"
    THEN IF ~options.dc_sweep_skip_allowed
           THEN [f EXCEPT !.x = x, !.solved = "False"]
           ELSE [f EXCEPT !.x = x, !.index = f.index - 1]
    ELSE [f EXCEPT !.x = x, !.solved = "True",
                   !.sol = Append(f.sol, <<f.sweep_value, x>>)]

\* lines 373-386: the point is recorded, skipped, or the sweep is given up
SweepPoint(f, x) ==
  IF x.kind = "None"
    THEN IF ~options.dc_sweep_skip_allowed
           THEN [f EXCEPT !.x = x, !.solved = "False"]
           ELSE [f EXCEPT !.x = x]
    ELSE [f EXCEPT !.x = x, !.solved = "True",
                   !.sol = Append(f.sol, <<f.sweep_value, x>>)]

DcSweepPoint ==
  /\ pc = "dc_point"
  /\ dc' = [SweepPoint(dc, op.opsolution) EXCEPT
              !.op_calls = Append(@, [sweep_value |-> dc.sweep_value,
                                      x0 |-> dc.x,
                                      guessed |-> op.guessed,
                                      solved |-> op.opsolution.kind # "None",
                                      x |-> op.opsolution])]
  /\ pc' = IF op.opsolution.kind = "None" /\ ~options.dc_sweep_skip_allowed
             THEN "dc_exit" ELSE "dc_sweep"
  /\ op' = OpIdle
  /\ UNCHANGED <<fn, options, circ, call, outcome, ds>>

\* lines 392-396
RestoreSource(c, f) == SetSourceValue(c, f.source_elem, f.initial_value)

\* line 398
SweepResult(f) ==
  IF f.solved = "True" THEN [none |-> FALSE, sol |-> f.sol]
                       ELSE [none |-> TRUE, sol |-> <<>>]

\* lines 388-398: solved is read (it is unbound when no point assigned it), the
\* source gets its DC value back, the result is returned
DcAnalysisExit ==
  /\ pc = "dc_exit"
  /\ IF dc.solved = "unbound"
       THEN Raise("UnboundLocalError") /\ UNCHANGED <<circ, dc>>
       ELSE /\ circ' = RestoreSource(circ, dc)
            /\ dc' = [dc EXCEPT !.ret = SweepResult(dc)]
            /\ pc' = "done"
            /\ outcome' = "returned"
  /\ UNCHANGED <<fn, options, call, op, ds>>

(***************************************************************************)
(* The calls.                                                              *)
(***************************************************************************)
\* the configurations: every combination of the three strategies, of the
\* other flags, and options.gmin = 10^-k
Options ==
  [use_standard_solve_method : BOOLEAN, use_gmin_stepping : BOOLEAN,
   use_source_stepping : BOOLEAN, dc_sweep_skip_allowed : BOOLEAN,
   dc_use_guess : BOOLEAN, gmin : GminExps]

\* the configurations sweeps are explored under: the standard strategy alone,
\* so that a point is solved, fails or raises within a few calls of mdn_solver
SweepOptions ==
  {o \in Options : /\ o.use_standard_solve_method
                   /\ ~o.use_gmin_stepping
                   /\ ~o.use_source_stepping}

\* the configurations single operating points are explored under: op_analysis
\* does not read dc_sweep_skip_allowed
OpOptions ==
  {o \in Options : ~o.dc_sweep_skip_allowed}

Circuit == [vdc |-> LinV(0), idc |-> LinV(0)]

X0Values == {XNone, XUser, XUserBad}

\* dc_analysis(circ, start, stop, step, source, sweep_type, guess, x0)
DcCalls ==
  [fn : {"dc_analysis"}, start : 1..MaxSweepValue, stop : 1..MaxSweepValue,
   step : StepValues, source : SourceNames, sweep_type : SweepTypes,
   guess : BOOLEAN, x0 : X0Values, verbose : {0}]

\* op_analysis(circ, x0, guess, verbose)
OpCalls ==
  [fn : {"op_analysis"}, start : {0}, stop : {0}, step : {0},
   source : {<<"", "">>}, sweep_type : {""},
   guess : BOOLEAN, x0 : X0Values, verbose : VerboseValues]

InitCall(c) ==
  /\ call = c
  /\ circ = Circuit
  /\ outcome = "running"
  /\ dc = DcIdle
  /\ ds = DsIdle
  /\ fn = FnIdle
  /\ IF c.fn = "op_analysis"
       THEN pc = "op_analysis" /\ op = OpFrame(c.x0, c.guess, c.verbose, "top")
       ELSE pc = "dc_analysis" /\ op = OpIdle

\* a call of dc_analysis
Init ==
  /\ options \in SweepOptions
  /\ \E c \in DcCalls : InitCall(c)

\* a call of op_analysis
InitOp ==
  /\ options \in OpOptions
  /\ \E c \in OpCalls : InitCall(c)

NextOp ==
  \/ OpAnalysisEnter
  \/ OpFinish
  \/ DcSolveEnter
  \/ DcSolveIter
  \/ DcSolveReturn

Next ==
  \/ DcAnalysisEnter
  \/ DcSweepNext
  \/ DcSweepPoint
  \/ DcAnalysisExit
  \/ NextOp

Spec == Init /\ [][Next]_vars

SpecOp == InitOp /\ [][NextOp]_vars


(***************************************************************************)
(* The Newton-Raphson kernel, lines 583-715 and 954-996.  Numbers are      *)
(* exact: a voltage or a current is an integer, a damping coefficient a    *)
(* rational, a relative tolerance an integer per mille.  Voltages are      *)
(* counted in units of constants.Vth(), so that the largest voltage step   *)
(* over a locked pair is options.nl_voltages_lock_factor.                  *)
(***************************************************************************)
Abs(a) == IF a < 0 THEN -a ELSE a

\* the rational num/den, den > 0
Rat(n, d) == [num |-> n, den |-> d]
RatLess(p, q) == p.num * q.den < q.num * p.den

\* seq[i] of a Python sequence: i counts from 0, a negative i from the end
PyIndex(seq, i) == IF i < 0 THEN seq[Len(seq) + i + 1] ELSE seq[i + 1]

\* lines 691-699: the damping of the first iterations
FirstItersTd(n) ==
  IF ~options.nr_damp_first_iters \/ n < 0 THEN Rat(1, 1)
  ELSE IF n < 10 THEN Rat(1, 100)
  ELSE IF n < 20 THEN Rat(1, 10)
  ELSE Rat(1, 1)

\* lines 703-712: the voltage step the code computes for a locked pair; with
\* a node 0 in the pair the other node's step alone is read, and the index
\* n - 1 of a node 0 is the index -1
LockedStep(dx, pair) ==
  IF pair[1] # 0
    THEN IF pair[2] # 0
           THEN Abs(PyIndex(dx, pair[1] - 1) - PyIndex(dx, pair[2] - 1))
           ELSE Abs(PyIndex(dx, pair[1] - 1))
    ELSE Abs(PyIndex(dx, pair[2] - 1))

\* lines 705-712: td_new is assigned when the step exceeds the limit and keeps
\* its value otherwise
TdNew(dx, pair, td_new) ==
  LET d == LockedStep(dx, pair)
  IN IF d > options.nl_voltages_lock_factor
       THEN Rat(options.nl_voltages_lock_factor, d)
       ELSE td_new

\* a mutant of LockStep: the coefficient of the last pair is taken
LockStepLastPair(td, td_new) == td_new

\* lines 713-714
LockStep(td, td_new) == IF RatLess(td_new, td) THEN td_new ELSE td

\* lines 702-714: the loop over locked_nodes from the i-th pair on
RECURSIVE LockLoop(_, _, _, _, _)
LockLoop(dx, locked_nodes, i, td, td_new) ==
  IF i > Len(locked_nodes) THEN td
  ELSE LET tn == TdNew(dx, locked_nodes[i], td_new)
       IN LockLoop(dx, locked_nodes, i + 1, LockStep(td, tn), tn)

\* lines 671-715
get_td(dx, locked_nodes, n) ==
  LET td == FirstItersTd(n)
  IN IF options.nl_voltages_lock
       THEN LockLoop(dx, locked_nodes, 1, td, Rat(1, 1))
       ELSE td

\* numpy.allclose(a, b, rtol, atol), lines 977-978, for one entry:
\* |a - b| <= atol + rtol * |b|
AllCloseEntry(a, b, rtol, atol) == 1000 * Abs(a - b) <= 1000 * atol + rtol * Abs(b)

\* line 981, for one entry
DebugEntry(x, dx, residuum, er, ea, eresiduum) ==
  /\ 1000 * Abs(dx) < er * Abs(x) + 1000 * ea
  /\ Abs(residuum) < eresiduum

\* lines 980-986: the results of the entries up to the first that fails
RECURSIVE DebugResults(_, _, _, _, _, _, _)
DebugResults(x, dx, residuum, er, ea, eresiduum, i) ==
  IF i > Len(x) THEN <<>>
  ELSE IF DebugEntry(x[i], dx[i], residuum[i], er, ea, eresiduum)
    THEN <<TRUE>> \o DebugResults(x, dx, residuum, er, ea, eresiduum, i + 1)
  ELSE <<FALSE>>

\* lines 969-996: (ret, all_check_results)
custom_convergence_check(x, dx, residuum, er, ea, eresiduum, debug) ==
  IF Len(x) # 0
    THEN IF ~debug
           THEN [ret |-> /\ \A i \in 1..Len(x) :
                              AllCloseEntry(x[i], x[i] + dx[i], er, ea)
                         /\ \A i \in 1..Len(x) :
                              AllCloseEntry(residuum[i], 0, 0, eresiduum),
                 all_check_results |-> <<>>]
           ELSE LET r == DebugResults(x, dx, residuum, er, ea, eresiduum, 1)
                IN [ret |-> \A i \in 1..Len(r) : r[i], all_check_results |-> r]
    ELSE [ret |-> TRUE, all_check_results |-> <<>>]

\* a mutant of voltage_convergence_check: the tolerances of the currents
voltage_convergence_check_as_current(x, dx, residuum, debug) ==
  custom_convergence_check(x, dx, residuum, options.ier, options.iea, options.vea, debug)

\* lines 963-964
voltage_convergence_check(x, dx, residuum, debug) ==
  custom_convergence_check(x, dx, residuum, options.ver, options.vea, options.iea, debug)

\* lines 966-967
current_convergence_check(x, dx, residuum, debug) ==
  custom_convergence_check(x, dx, residuum, options.ier, options.iea, options.vea, debug)

\* seq[:k] and seq[k:] of Python for k >= 0
PyHead(seq, k) == SubSeq(seq, 1, IF k < Len(seq) THEN k ELSE Len(seq))
PyTail(seq, k) == SubSeq(seq, (IF k < Len(seq) THEN k ELSE Len(seq)) + 1, Len(seq))

\* lines 954-961: debug is not handed to the two checks, which run with their
\* default debug=False
convergence_check(x, dx, residuum, nv_minus_one, debug) ==
  LET v == voltage_convergence_check(PyHead(x, nv_minus_one), PyHead(dx, nv_minus_one),
                                     PyHead(residuum, nv_minus_one), FALSE)
      i == current_convergence_check(PyTail(x, nv_minus_one), PyTail(dx, nv_minus_one),
                                     PyTail(residuum, nv_minus_one), FALSE)
  IN [ret |-> v.ret /\ i.ret,
      all_check_results |-> v.all_check_results \o i.all_check_results]

\* a mutant of MdnLoopGuard: one iteration too many
MdnLoopGuardInclusive(f) == f.iteration <= f.MAXIT

\* line 598
MdnLoopGuard(f) == f.iteration < f.MAXIT

\* lines 583-596: the frame of mdn_solver on entry to its loop, for a system of
\* one unknown: mna is the number m, x and T are numbers or None
MdnFrame(c) ==
  [name |-> "mdn_solver", mna |-> c.mna, nonlinear_circuit |-> c.nonlinear,
   MAXIT |-> c.MAXIT, debug |-> c.debug, locked_nodes |-> c.locked_nodes,
   x |-> [kind |-> "value",
          val |-> IF c.x.kind = "None" THEN Rat(0, 1) ELSE Rat(c.x.v[1], 1)],
   T |-> IF c.T.none THEN 0 ELSE c.T.v,
   converged |-> FALSE, iteration |-> 0, iterations_done |-> 0,
   last_check |-> FALSE, residuo |-> "unbound", td |-> Rat(1, 1),
   convergence_by_node |-> "unbound"]

\* lines 583-596
MdnSolverEnter ==
  /\ pc = "mdn_solver"
  /\ IF call.x.kind # "None" /\ Len(call.x.v) # 1
       THEN Raise("Exception") /\ UNCHANGED fn
       ELSE fn' = MdnFrame(call) /\ pc' = "mdn_loop" /\ UNCHANGED outcome
  /\ UNCHANGED <<options, circ, call, dc, op, ds>>

\* lines 605-613, a circuit without nonlinear elements: J = mna, Tx = 0,
\* residuo = mna*x + T, dx = inv(J) * (-residuo), x = x + get_td(dx, ...)*dx.
\* The inputs are chosen so that mna divides the residuo.
MdnLinearStep(f) ==
  LET x == f.x.val.num
      residuo == f.mna * x + f.T
      dx == (-residuo) \div f.mna
      td == get_td(<<dx>>, f.locked_nodes, f.iteration + 1)
  IN [f EXCEPT !.iteration = f.iteration + 1,
               !.iterations_done = f.iterations_done + 1,
               !.residuo = "bound", !.td = td,
               !.x = [kind |-> "value", val |-> Rat(x * td.den + td.num * dx, td.den)],
               !.converged = TRUE]

\* lines 598-616: one turn of the loop.  With nonlinear elements J and Tx come
\* from the device models: the iterate is some vector, and the check of line
\* 614 passes or not; numpy.linalg.inv raises LinAlgError on a singular J, a
\* device model may raise OverflowError.
MdnSolverIter ==
  /\ pc = "mdn_loop"
  /\ IF ~MdnLoopGuard(fn)
       THEN pc' = "mdn_exit" /\ UNCHANGED <<fn, outcome>>
     ELSE IF ~fn.nonlinear_circuit
       THEN IF fn.mna = 0
              THEN /\ Raise("LinAlgError")
                   /\ fn' = [fn EXCEPT !.iteration = fn.iteration + 1,
                                       !.iterations_done = fn.iterations_done + 1,
                                       !.residuo = "bound"]
              ELSE fn' = MdnLinearStep(fn) /\ pc' = "mdn_exit" /\ UNCHANGED outcome
     ELSE \E r \in {"converged", "not converged", "LinAlgError", "OverflowError"} :
            LET g == [fn EXCEPT !.iteration = fn.iteration + 1,
                                !.iterations_done = fn.iterations_done + 1,
                                !.residuo = "bound",
                                !.x = [kind |-> "iterate", val |-> Rat(0, 1)]]
            IN IF r \in {"LinAlgError", "OverflowError"}
                 THEN Raise(r) /\ fn' = [g EXCEPT !.x = fn.x]
                 ELSE /\ fn' = [g EXCEPT !.last_check = (r = "converged"),
                                         !.converged = (r = "converged")]
                      /\ pc' = IF r = "converged" THEN "mdn_exit" ELSE "mdn_loop"
                      /\ UNCHANGED outcome
  /\ UNCHANGED <<options, circ, call, dc, op, ds>>

\* lines 619-626: in debug mode a run that did not converge has its check made
\* again, on the x, dx and residuo of the check of line 614 and, debug not being
\* handed on (lines 959-960), by the same test: it gives what it gave
MdnSolverExit ==
  /\ pc = "mdn_exit"
  /\ IF fn.debug /\ ~fn.converged
       THEN fn' = [fn EXCEPT !.converged = fn.last_check,
                             !.convergence_by_node = "empty"]
       ELSE fn' = [fn EXCEPT !.convergence_by_node = "empty"]
  /\ pc' = "done"
  /\ outcome' = "returned"
  /\ UNCHANGED <<options, circ, call, dc, op, ds>>

\* get_td(dx, locked_nodes, n)
GetTd ==
  /\ pc = "get_td"
  /\ fn' = [name |-> "get_td", td |-> get_td(call.dx, call.locked_nodes, call.n)]
  /\ pc' = "done"
  /\ outcome' = "returned"
  /\ UNCHANGED <<options, circ, call, dc, op, ds>>

\* custom_convergence_check(x, dx, residuum, er, ea, eresiduum, debug=debug)
CustomConvergenceCheck ==
  /\ pc = "custom_convergence_check"
  /\ fn' = [name |-> "custom_convergence_check",
            result |-> custom_convergence_check(call.x, call.dx, call.residuum,
                                                call.er, call.ea, call.eresiduum,
                                                call.debug)]
  /\ pc' = "done"
  /\ outcome' = "returned"
  /\ UNCHANGED <<options, circ, call, dc, op, ds>>

\* convergence_check(x, dx, residuum, nv_minus_one, debug=debug)
ConvergenceCheck ==
  /\ pc = "convergence_check"
  /\ fn' = [name |-> "convergence_check",
            result |-> convergence_check(call.x, call.dx, call.residuum,
                                         call.nv_minus_one, call.debug)]
  /\ pc' = "done"
  /\ outcome' = "returned"
  /\ UNCHANGED <<options, circ, call, dc, op, ds>>

(***************************************************************************)
(* The calls of the kernel's functions.                                    *)
(***************************************************************************)
\* the sequences over S of length at most n
SeqsUpTo(S, n) == UNION {[1..k -> S] : k \in 0..n}

\* what the kernel reads of options: the two damping flags, the largest
\* voltage step over a locked pair (in units of Vth), the relative (per mille)
\* and absolute tolerances of voltages and currents
KernelOptions ==
  [nr_damp_first_iters : BOOLEAN, nl_voltages_lock : BOOLEAN,
   nl_voltages_lock_factor : {2},
   ver : {0, 1000}, vea : {0, 1}, ier : {0, 1000}, iea : {1, 2}]

\* the configurations the damping is explored under
DampingOptions ==
  {o \in KernelOptions : o.ver = 1000 /\ o.vea = 0 /\ o.ier = 1000 /\ o.iea = 1}

\* the configurations the convergence check is explored under
ToleranceOptions ==
  {o \in KernelOptions : ~o.nr_damp_first_iters /\ o.nl_voltages_lock}

\* the entries of dx in a call of get_td, of x, dx and residuum in a call of a
\* convergence check
DxValues == {-3, 0, 2}
XEntries == {0, 1}
DxEntries == {-2, 0, 1}
ResiduumEntries == {0, 2}

\* a call of a function of the kernel is under way
InitKernelCall(c) ==
  /\ call = c
  /\ pc = c.fn
  /\ circ = Circuit
  /\ outcome = "running"
  /\ dc = DcIdle
  /\ op = OpIdle
  /\ ds = DsIdle
  /\ fn = FnIdle

\* get_td(dx, locked_nodes, n): the iteration counter n is negative, below 10,
\* below 20, or not
GetTdCalls ==
  [fn : {"get_td"}, dx : [1..MaxVecLen -> DxValues],
   locked_nodes : SeqsUpTo((0..MaxVecLen) \X (0..MaxVecLen), MaxLockedPairs),
   n : {-1, 1, 10, 20}]

\* x, dx and residuum of one length
CheckVectors ==
  UNION {[x : [1..k -> XEntries], dx : [1..k -> DxEntries],
          residuum : [1..k -> ResiduumEntries]] : k \in 0..MaxVecLen}

\* custom_convergence_check(x, dx, residuum, er, ea, eresiduum, debug)
CustomCheckCalls ==
  {[fn |-> "custom_convergence_check", x |-> v.x, dx |-> v.dx,
    residuum |-> v.residuum, er |-> t[1], ea |-> t[2], eresiduum |-> t[3],
    debug |-> d] :
     v \in CheckVectors, t \in {0, 1000} \X {0, 1} \X {1, 2}, d \in BOOLEAN}

\* convergence_check(x, dx, residuum, nv_minus_one, debug)
CheckCalls ==
  {[fn |-> "convergence_check", x |-> v.x, dx |-> v.dx, residuum |-> v.residuum,
    nv_minus_one |-> k, debug |-> d] :
     v \in CheckVectors, k \in 0..MaxVecLen, d \in BOOLEAN}

\* mdn_solver(x, mna, circ, T, MAXIT, nv, locked_nodes, debug) for a system of
\* one unknown: x is None, a vector of one entry or a vector of two
MdnCalls ==
  [fn : {"mdn_solver"},
   x : {[kind |-> "None", v |-> <<>>], [kind |-> "given", v |-> <<0>>],
        [kind |-> "given", v |-> <<1>>], [kind |-> "given", v |-> <<0, 0>>]},
   mna : {-1, 0, 1, 2},
   T : {[none |-> TRUE, v |-> 0], [none |-> FALSE, v |-> -2],
        [none |-> FALSE, v |-> 0], [none |-> FALSE, v |-> 6]},
   nonlinear : BOOLEAN, MAXIT : 1..MaxKernelIter, debug : BOOLEAN,
   locked_nodes : {<<>>, <<<<1, 0>>>>}]

InitDamping ==
  /\ options \in DampingOptions
  /\ \E c \in GetTdCalls : InitKernelCall(c)

InitConvergence ==
  /\ options \in ToleranceOptions
  /\ \E c \in CustomCheckCalls \cup CheckCalls : InitKernelCall(c)

InitNewton ==
  /\ options \in DampingOptions
  /\ \E c \in MdnCalls : InitKernelCall(c)

NextConvergence ==
  \/ CustomConvergenceCheck
  \/ ConvergenceCheck

NextNewton ==
  \/ MdnSolverEnter
  \/ MdnSolverIter
  \/ MdnSolverExit

SpecDamping == InitDamping /\ [][GetTd]_vars

SpecConvergence == InitConvergence /\ [][NextConvergence]_vars

SpecNewton == InitNewton /\ [][NextNewton]_vars

(***************************************************************************)
(* The assembly of the system and of an initial x0, lines 718-809 and      *)
(* 874-952.  A circuit is its list of elements; its nodes are 0 (the       *)
(* reference, called "0"), 1 (called "1") and 2 (called "n1").             *)
(***************************************************************************)
\* an element: its class, letter_id + descr, its nodes, its initial condition
\* (0 when it has none), whether it is nonlinear and whether it is a source
\* with a time dependent part
Elem(kind, id, n1, n2, ic) ==
  [kind |-> kind, id |-> id, n1 |-> n1, n2 |-> n2, ic |-> ic,
   is_nonlinear |-> kind = "diode", is_timedependent |-> FALSE]

\* a source with a time dependent part
TimeDependent(e) == [e EXCEPT !.is_timedependent = TRUE]

\* the elements circuits are made of; "other" is a linear element of a class
\* the assembly does not know, "other_vde" a voltage defined one
ElementChoices ==
  {Elem("resistor", "R1", 1, 2, 0), Elem("capacitor", "C1", 1, 2, 1),
   Elem("capacitor", "C2", 1, 0, 1), Elem("capacitor", "C3", 0, 2, 1),
   Elem("capacitor", "C4", 1, 2, 0), Elem("diode", "D1", 2, 1, 1),
   Elem("inductor", "L1", 1, 2, 1), Elem("inductor", "L", 2, 0, 0),
   Elem("vsource", "V1", 1, 0, 0), Elem("evsource", "E1", 2, 0, 0),
   Elem("hvsource", "H1", 2, 1, 0), Elem("gisource", "G1", 1, 2, 0),
   Elem("isource", "I1", 1, 0, 0), Elem("inductor_coupling", "K1", 0, 0, 0),
   TimeDependent(Elem("vsource", "V2", 2, 0, 0)),
   TimeDependent(Elem("isource", "I2", 0, 2, 0)),
   Elem("other", "X1", 1, 2, 0), Elem("other_vde", "Y1", 1, 2, 0)}

\* the lists of at most MaxElements elements, no element twice
ElementLists ==
  {l \in SeqsUpTo(ElementChoices, MaxElements) :
     \A i \in 1..Len(l) : \A j \in 1..Len(l) : i # j => l[i] # l[j]}

\* circ.nodes_dict: the name of each node
NodesDict == <<"0", "1", "n1">>

\* circuit.is_elem_voltage_defined(elem)
is_elem_voltage_defined(e) ==
  e.kind \in {"vsource", "evsource", "hvsource", "inductor", "other_vde"}

\* the voltage defined elements of a list, in the order of the list
RECURSIVE VoltageDefined(_)
VoltageDefined(elements) ==
  IF elements = <<>> THEN <<>>
  ELSE (IF is_elem_voltage_defined(Head(elements)) THEN <<Head(elements)>> ELSE <<>>)
       \o VoltageDefined(Tail(elements))

\* lines 740-768: what the first loop does with an element
FirstLoopBranch(e) ==
  IF e.is_nonlinear THEN "continue"
  ELSE IF e.kind = "resistor" THEN "stamp"
  ELSE IF e.kind = "capacitor" THEN "pass"
  ELSE IF e.kind = "gisource" THEN "stamp"
  ELSE IF e.kind = "isource" THEN (IF ~e.is_timedependent THEN "stamp" ELSE "pass")
  ELSE IF e.kind = "inductor_coupling" THEN "pass"
  ELSE IF is_elem_voltage_defined(e) THEN "pass"
  ELSE "print"

\* lines 784-802: what the second loop does with a voltage defined element
\* once its row and column are added
SecondLoopBranch(e) ==
  IF e.kind = "vsource" /\ ~e.is_timedependent THEN "stamp"
  ELSE IF e.kind = "vsource" /\ e.is_timedependent THEN "pass"
  ELSE IF e.kind = "evsource" THEN "stamp"
  ELSE IF e.kind = "inductor" THEN "pass"
  ELSE IF e.kind = "hvsource" THEN "exit"
  ELSE "exit"

\* lines 773-802: the rows added from the i-th element on, until sys.exit
RECURSIVE SecondLoop(_, _, _)
SecondLoop(elements, i, rows) ==
  IF i > Len(elements) THEN [exit |-> FALSE, rows |-> rows]
  ELSE IF ~is_elem_voltage_defined(elements[i]) THEN SecondLoop(elements, i + 1, rows)
  ELSE IF SecondLoopBranch(elements[i]) = "exit"
    THEN [exit |-> TRUE, rows |-> Append(rows, elements[i].id)]
  ELSE SecondLoop(elements, i + 1, Append(rows, elements[i].id))

\* lines 737-809: the elements a message was printed for, the element of each
\* row added after the rows of the nodes, and whether sys.exit ended the call
generate_mna_and_N(elements) ==
  LET second == SecondLoop(elements, 1, <<>>)
  IN [name |-> "generate_mna_and_N",
      printed |-> {elements[i].id : i \in {j \in 1..Len(elements) :
                                             FirstLoopBranch(elements[j]) = "print"}},
      rows |-> second.rows,
      size |-> Len(NodesDict) + Len(second.rows),
      exit |-> second.exit]

GenerateMnaAndN ==
  /\ pc = "generate_mna_and_N"
  /\ fn' = generate_mna_and_N(call.elements)
  /\ pc' = "done"
  /\ outcome' = IF fn'.exit THEN "SystemExit" ELSE "returned"
  /\ UNCHANGED <<options, circ, call, dc, op, ds>>

\* seq[i] = v of a Python sequence
PySet(seq, i, v) ==
  IF i < 0 THEN [seq EXCEPT ![Len(seq) + i + 1] = v] ELSE [seq EXCEPT ![i + 1] = v]

\* a mutant of NextVEq: only the voltage sources are counted
NextVEqSourcesOnly(elem, v_eq) ==
  IF elem.kind = "vsource" THEN v_eq + 1 ELSE v_eq

\* lines 155-156 of dc_solve: v_eq counts the voltage defined elements met
NextVEq(elem, v_eq) ==
  IF is_elem_voltage_defined(elem) THEN v_eq + 1 ELSE v_eq

\* lines 147-154 of dc_solve: what a time dependent source writes into Tt,
\* each entry of which is the sum of the terms <<sign, source>> it lists
FoldSource(Tt, elem, v_eq) ==
  IF elem.kind \in {"vsource", "isource"} /\ elem.is_timedependent
    THEN IF elem.kind = "vsource"
           THEN PySet(Tt, Len(NodesDict) - 1 + v_eq, <<<<"-", elem.id>>>>)
           ELSE LET t1 == IF elem.n1 # 0
                            THEN PySet(Tt, elem.n1 - 1,
                                       Append(PyIndex(Tt, elem.n1 - 1), <<"+", elem.id>>))
                            ELSE Tt
                IN IF elem.n2 # 0
                     THEN PySet(t1, elem.n2 - 1,
                                Append(PyIndex(t1, elem.n2 - 1), <<"-", elem.id>>))
                     ELSE t1
    ELSE Tt

\* lines 146-156 of dc_solve: the loop from the i-th element on
RECURSIVE FoldTt(_, _, _, _)
FoldTt(elements, i, v_eq, Tt) ==
  IF i > Len(elements) THEN [v_eq |-> v_eq, Tt |-> Tt]
  ELSE FoldTt(elements, i + 1, NextVEq(elements[i], v_eq),
              FoldSource(Tt, elements[i], v_eq))

\* lines 143-156 of dc_solve: Tt has the size of the reduced mna, a row per
\* node but node 0 and a row per voltage defined element
BuildTt(elements, skip_Tt) ==
  LET mna_size == Len(NodesDict) - 1 + Len(VoltageDefined(elements))
      zeros == [j \in 1..mna_size |-> <<>>]
  IN IF ~skip_Tt THEN FoldTt(elements, 1, 0, zeros)
     ELSE [v_eq |-> 0, Tt |-> zeros]

\* lines 143-158 of dc_solve(mna, Ndc, circ, skip_Tt=skip_Tt)
DcSolveBuildTt ==
  /\ pc = "dc_solve_Tt"
  /\ fn' = [name |-> "dc_solve"] @@ BuildTt(call.elements, call.skip_Tt)
  /\ pc' = "done"
  /\ outcome' = "returned"
  /\ UNCHANGED <<options, circ, call, dc, op, ds>>

\* the characters \w matches, among those the labels are written with
WordChars == {"V", "v", "I", "i", "L", "l", "X", "n", "0", "1"}

\* the character of s at position p, "" beyond the end
CharAt(s, p) == IF p <= Len(s) THEN s[p] ELSE ""

\* \s*: the first position from p on that holds no space
RECURSIVE SkipSpaces(_, _)
SkipSpaces(s, p) == IF CharAt(s, p) = " " THEN SkipSpaces(s, p + 1) ELSE p

\* lines 898-899: a match at position p of  <letter>\s*\(\s*(\w?)\s*\)  under
\* re.IGNORECASE, and its group: \w? takes one character of a word, or none
RegexMatchAt(s, p, letters) ==
  LET q1 == SkipSpaces(s, p + 1)
      q2 == SkipSpaces(s, q1 + 1)
      q3 == SkipSpaces(s, q2 + 1)
  IN IF CharAt(s, p) \notin letters \/ CharAt(s, q1) # "("
       THEN [match |-> FALSE, group |-> ""]
     ELSE IF CharAt(s, q2) \in WordChars /\ CharAt(s, q3) = ")"
       THEN [match |-> TRUE, group |-> s[q2]]
     ELSE IF CharAt(s, q2) = ")"
       THEN [match |-> TRUE, group |-> ""]
     ELSE [match |-> FALSE, group |-> ""]

\* regex.search(label) and regex.findall(label)[0], lines 909-914: the
\* leftmost match
RegexSearch(s, letters) ==
  LET ps == {p \in 1..Len(s) : RegexMatchAt(s, p, letters).match}
  IN IF ps = {} THEN [match |-> FALSE, group |-> ""]
     ELSE RegexMatchAt(s, CHOOSE p \in ps : \A q \in ps : p <= q, letters)

\* circ.ext_node_to_int(ext_node): the number of the node of that name, -1
\* when there is none
ext_node_to_int(ext_node) ==
  IF \E n \in 1..Len(NodesDict) : NodesDict[n] = ext_node
    THEN (CHOOSE n \in 1..Len(NodesDict) : NodesDict[n] = ext_node) - 1
    ELSE -1

\* str.lower of an element's name, line 905
StrLower(id) ==
  CASE id = "L1" -> "l1" [] id = "L" -> "l" [] id = "V1" -> "v1"
    [] id = "E1" -> "e1" [] id = "H1" -> "h1" [] id = "Y1" -> "y1"
    [] id = "V2" -> "v2"
    [] OTHER -> id

\* list.index(name), line 915: the position, counted from 0, -1 when absent
ListIndex(names, name) ==
  IF \E k \in 1..Len(names) : names[k] = name
    THEN (CHOOSE k \in 1..Len(names) : names[k] = name /\ \A j \in 1..(k - 1) : names[j] # name) - 1
    ELSE -1

\* lines 908-918: one entry of icdict is written into x0; what is raised, ""
\* when nothing is
SetIcEntry(f, label, value) ==
  LET v == RegexSearch(label, {"V", "v"})
      i == RegexSearch(label, {"I", "i"})
  IN IF v.match
       THEN LET int_node == ext_node_to_int(v.group)
            IN IF int_node < 0
                 THEN [f EXCEPT !.raised = "KeyError"]
                 ELSE [f EXCEPT !.x0[int_node + 1] = value]
     ELSE IF i.match
       THEN LET index == ListIndex(f.voltage_defined_elem_names, i.group)
            IN IF index < 0
                 THEN [f EXCEPT !.raised = "ValueError", !.error = "not in list"]
                 ELSE [f EXCEPT !.x0[f.nv + index + 1] = value]
     ELSE [f EXCEPT !.raised = "ValueError", !.error = "Unrecognized label"]

\* the loop of line 908 from the k-th entry of icdict on
RECURSIVE SetIcEntries(_, _, _)
SetIcEntries(f, icdict, k) ==
  IF k > Len(icdict) \/ f.raised # "" THEN f
  ELSE SetIcEntries(SetIcEntry(f, icdict[k].label.text, icdict[k].value), icdict, k + 1)

\* lines 898-919: x0 has an entry per node and per voltage defined element and
\* is returned without the entry of node 0
build_x0_from_user_supplied_ic(elements, icdict) ==
  LET vde == VoltageDefined(elements)
      names == [k \in 1..Len(vde) |-> StrLower(vde[k].id)]
      f == SetIcEntries([name |-> "build_x0_from_user_supplied_ic",
                         nv |-> Len(NodesDict), voltage_defined_elem_names |-> names,
                         x0 |-> [k \in 1..(Len(NodesDict) + Len(names)) |-> 0],
                         raised |-> "", error |-> ""],
                        icdict, 1)
  IN IF f.raised # "" THEN f ELSE [f EXCEPT !.x0 = Tail(f.x0)]

BuildX0FromUserSuppliedIc ==
  /\ pc = "build_x0_from_user_supplied_ic"
  /\ fn' = build_x0_from_user_supplied_ic(call.elements, call.icdict)
  /\ pc' = "done"
  /\ outcome' = IF fn'.raised # "" THEN fn'.raised ELSE "returned"
  /\ UNCHANGED <<options, circ, call, dc, op, ds>>

\* lines 935-938: the voltages, from the i-th element on
RECURSIVE SetVoltages(_, _, _)
SetVoltages(x0, elements, i) ==
  IF i > Len(elements) THEN x0
  ELSE LET elem == elements[i]
       IN IF elem.kind \in {"capacitor", "diode"} /\ elem.ic # 0
            THEN SetVoltages(PySet(x0, elem.n1 - 1, PyIndex(x0, elem.n2 - 1) + elem.ic),
                             elements, i + 1)
            ELSE SetVoltages(x0, elements, i + 1)

\* lines 941-943: the currents, from the k-th voltage defined element on
RECURSIVE SetCurrents(_, _, _)
SetCurrents(x0, vde, k) ==
  IF k > Len(vde) THEN x0
  ELSE IF vde[k].kind = "inductor" /\ vde[k].ic # 0
    THEN SetCurrents(PySet(x0, Len(NodesDict) - 1 + (k - 1), vde[k].ic), vde, k + 1)
  ELSE SetCurrents(x0, vde, k + 1)

\* lines 921-952, for an x0 that is a matrix
modify_x0_for_ic(elements, x0) ==
  SetCurrents(SetVoltages(x0, elements, 1), VoltageDefined(elements), 1)

ModifyX0ForIc ==
  /\ pc = "modify_x0_for_ic"
  /\ fn' = [name |-> "modify_x0_for_ic",
            xnew |-> modify_x0_for_ic(call.elements, call.x0)]
  /\ pc' = "done"
  /\ outcome' = "returned"
  /\ UNCHANGED <<options, circ, call, dc, op, ds>>

\* a key of icdict: its text, and what it is meant to name: the voltage of a
\* node (form "V"), the current of an element (form "I"), or neither
Label(text, form, target) == [text |-> text, form |-> form, target |-> target]

LabelChoices ==
  {Label(<<"V", "(", "1", ")">>, "V", "1"),
   Label(<<"v", " ", "(", " ", "1", " ", ")">>, "V", "1"),
   Label(<<"V", "(", "n", "1", ")">>, "V", "n1"),
   Label(<<"V", "(", "0", ")">>, "V", "0"),
   Label(<<"I", "(", "l", ")">>, "I", "L"),
   Label(<<"I", "(", "L", ")">>, "I", "L"),
   Label(<<"I", "(", "L", "1", ")">>, "I", "L1"),
   Label(<<"X", "(", "1", ")">>, "other", "")}

\* icdict in the order its entries are iterated: one or two entries that name
\* different things, the k-th with the value 4 + k
IcDicts ==
  {<<[label |-> a, value |-> 5]>> : a \in LabelChoices}
  \cup
  UNION {{<<[label |-> a, value |-> 5], [label |-> b, value |-> 6]>> :
            b \in {c \in LabelChoices : c.form # a.form \/ c.target # a.target}} :
         a \in LabelChoices}

\* the calls of the functions
AssemblyCalls ==
  [fn : {"generate_mna_and_N"}, elements : ElementLists]
  \cup
  [fn : {"dc_solve_Tt"}, elements : ElementLists, skip_Tt : BOOLEAN]
  \cup
  [fn : {"build_x0_from_user_supplied_ic"}, elements : ElementLists, icdict : IcDicts]
  \cup
  {[fn |-> "modify_x0_for_ic", elements |-> l, x0 |-> x] :
     l \in ElementLists,
     x \in UNION {[1..k -> {0, 5}] : k \in 2..(2 + MaxElements)} }

InitAssembly ==
  /\ options \in {o \in DampingOptions : ~o.nr_damp_first_iters /\ o.nl_voltages_lock}
  /\ \E c \in {a \in AssemblyCalls :
                 a.fn = "modify_x0_for_ic"
                   => Len(a.x0) = Len(NodesDict) - 1 + Len(VoltageDefined(a.elements))} :
       InitKernelCall(c)

NextAssembly ==
  \/ GenerateMnaAndN
  \/ DcSolveBuildTt
  \/ BuildX0FromUserSuppliedIc
  \/ ModifyX0ForIc

SpecAssembly == InitAssembly /\ [][NextAssembly]_vars

(***************************************************************************)
(* The strategies of dc_solve, as the properties below speak of them.      *)
(***************************************************************************)
Strategies == <<"standard", "gmin", "source">>

Rank(s) == CASE s = "standard" -> 1 [] s = "gmin" -> 2 [] s = "source" -> 3
             [] OTHER -> 4

Configured(s) ==
  CASE s = "standard" -> options.use_standard_solve_method
    [] s = "gmin" -> options.use_gmin_stepping
    [] s = "source" -> options.use_source_stepping

StrategyOf(f, s) ==
  CASE s = "standard" -> f.standard_solving
    [] s = "gmin" -> f.gmin_stepping
    [] s = "source" -> f.source_stepping

EnabledSet(f) == {s \in {"standard", "gmin", "source"} : StrategyOf(f, s).enabled}

\* the first strategy, in the order Standard, Gmin, Source, that is configured
\* and has not failed in frame f; "none" when there is none
FirstAvailable(f) ==
  LET ok == {i \in 1..3 : Configured(Strategies[i]) /\ ~StrategyOf(f, Strategies[i]).failed}
  IN IF ok = {} THEN "none"
     ELSE Strategies[CHOOSE i \in ok : \A j \in ok : i <= j]

AllConfiguredFailed(f) ==
  \A s \in {"standard", "gmin", "source"} : Configured(s) => StrategyOf(f, s).failed

\* in a turn of the loop of dc_solve, mdn_solver returned converged: the loop
\* is left converged or a stepping index advances
TurnConverged ==
  \/ ds'.converged
  \/ ds'.gmin_stepping.index # ds.gmin_stepping.index
  \/ ds'.source_stepping.index # ds.source_stepping.index

\* a turn of the loop of dc_solve that no exception ends
LoopTurn ==
  /\ pc = "dc_solve_loop"
  /\ pc' \in {"dc_solve_loop", "dc_solve_return"}

(***************************************************************************)
(* Properties.                                                             *)
(***************************************************************************)

\* C1: after a call of dc_analysis that located the swept source, however it
\* ends (returned or raised), the DC values of the sources are the values
\* from before the call.
C1_SourceRestored ==
  (call.fn = "dc_analysis" /\ pc = "done" /\ dc.source_elem # "none")
    => circ = Circuit

\* C2: when dc_solve returns converged with source stepping the enabled
\* strategy, the last system handed to mdn_solver had Ndc at full strength.
C2_SourceSteppingEndsAtFullStrength ==
  (pc = "dc_solve_return" /\ ds.converged /\ ds.source_stepping.enabled)
    => ds.N_to_pass.factor = 1000

\* C3: dc_solve enters its loop with the first configured strategy enabled;
\* a turn in which the enabled strategy converges keeps it enabled and marks
\* nothing failed; a turn in which it does not converge marks it failed and
\* enables the first configured strategy that has not failed, which comes later
\* in the order Standard, Gmin, Source; never is more than one enabled.
C3_StrategyOrder ==
  [][ /\ (pc = "dc_solve" /\ pc' = "dc_solve_loop")
          => /\ EnabledSet(ds') = {FirstAvailable(ds')} \ {"none"}
             /\ \A s \in {"standard", "gmin", "source"} : ~StrategyOf(ds', s).failed
      /\ (LoopTurn /\ EnabledSet(ds) # {})
          => \E s \in EnabledSet(ds) :
               IF TurnConverged
                 THEN /\ EnabledSet(ds') = {s}
                      /\ \A t \in {"standard", "gmin", "source"} :
                           StrategyOf(ds', t).failed = StrategyOf(ds, t).failed
                 ELSE /\ StrategyOf(ds', s).failed
                      /\ EnabledSet(ds') = {FirstAvailable(ds')} \ {"none"}
                      /\ \A t \in EnabledSet(ds') : Rank(t) > Rank(s)
                      /\ \A t \in {"standard", "gmin", "source"} \ {s} :
                           StrategyOf(ds', t).failed = StrategyOf(ds, t).failed
    ]_vars

\* C3 witness: source stepping is enabled after Standard and Gmin stepping failed
C3_Witness ==
  /\ pc = "dc_solve_loop"
  /\ ds.source_stepping.enabled
  /\ ds.standard_solving.failed
  /\ ds.gmin_stepping.failed

\* C4: when dc_solve returns with every configured strategy failed it returns
\* (None, None, False, tot_iterations), and it never returns converged = False
\* with a solution.
C4_AllFailedReturnsNone ==
  pc = "dc_solve_return"
    => /\ AllConfiguredFailed(ds)
            => (ds.x = XNone /\ ds.error = "None" /\ ~ds.converged)
       /\ ~ds.converged => ds.x = XNone

\* C5: op_analysis returns the solution without Gmin when both solves
\* converged, whatever the check of the two says, the solution with Gmin when
\* only the first converged, and None when the first did not converge.
C5_OpAnalysisResult ==
  op.returned # "unset"
    => LET c == op.dc_solve_calls
       IN /\ Len(c) >= 1
          /\ c[1].returned
          /\ IF ~c[1].converged
               THEN op.returned = "None" /\ op.opsolution = XNone
             ELSE IF Len(c) = 2 /\ c[2].returned /\ c[2].converged
               THEN op.returned = "op2" /\ op.opsolution = c[2].x
             ELSE op.returned = "op1" /\ op.opsolution = c[1].x

\* C5 witness: both solves converged, the check of the two solutions reported
\* variables out of tolerance, and op_analysis returned
C5_Witness ==
  /\ op.returned = "op2"
  /\ ~op.check_ok
  /\ op.solved1 /\ op.solved2

\* C6: op_analysis calls dc_solve at most twice; the first call has Gmin =
\* options.gmin on the node rows; the second call is made only after the first
\* returned converged, has no Gmin and starts from the x the first returned,
\* which is the x its first call of mdn_solver gets; op_analysis returns after
\* two calls when the first converged and after one when it did not.
C6_GminOffAfterGminOn ==
  LET c == op.dc_solve_calls
  IN /\ Len(c) <= 2
     /\ Len(c) >= 1 => c[1].Gmin = Pow10(-options.gmin)
     /\ Len(c) = 2 => /\ c[1].returned /\ c[1].converged
                      /\ c[2].Gmin = GZero
                      /\ c[2].x0 = c[1].x
     /\ (pc = "dc_solve_loop" /\ op.pass = 2 /\ ~ds.passed)
          => (ds.x = c[1].x /\ ds.Gmin = GZero)
     /\ op.returned # "unset" => Len(c) = IF c[1].converged THEN 2 ELSE 1

\* C6 witness: the solve without Gmin has returned
C6_Witness ==
  /\ pc = "dc_solve_return"
  /\ op.pass = 2
  /\ Len(op.dc_solve_calls) = 2
  /\ ds.passed

\* the (sweep_value, solution) pairs of the points op_analysis solved
RECURSIVE SolvedPairs(_)
SolvedPairs(calls) ==
  IF calls = <<>> THEN <<>>
  ELSE (IF Head(calls).solved THEN <<  <<Head(calls).sweep_value, Head(calls).x>>  >>
                              ELSE <<>>)
       \o SolvedPairs(Tail(calls))

\* C7: when the loop over the sweep values has ended, dc_analysis returns the
\* pairs of the solved points, in order, if there is one, and None if there is
\* none; it does not raise.
C7_ResultHoldsSolvedPoints ==
  (call.fn = "dc_analysis" /\ pc = "done" /\ dc.index > 0 /\ op = OpIdle)
    => /\ outcome = "returned"
       /\ LET pairs == SolvedPairs(dc.op_calls)
          IN IF pairs # <<>> THEN dc.ret = [none |-> FALSE, sol |-> pairs]
                             ELSE dc.ret.none

\* C8: dc_analysis called for an existing source and a known sweep type with
\* (stop - start) * step <= 0 (the refusal of a descending sweep under the log
\* label apart) ends with the ValueError of unbounded stepping, no point
\* solved, the sources untouched.
C8_UnboundedSteppingRejected ==
  ( /\ call.fn = "dc_analysis"
    /\ (call.stop - call.start) * call.step <= 0
    /\ ~(call.sweep_type = dc_log_step /\ call.stop < call.start)
    /\ FindSource(Lower(call.source[1]), call.source[2]) # "none"
    /\ Upper3(call.sweep_type) \in {dc_lin_step, dc_log_step}
    /\ pc # "dc_analysis" )
    => (pc = "done" /\ outcome = "ValueError" /\ circ = Circuit /\ dc = DcIdle)

\* C9: dc_analysis called with sweep_type LOGARITHMIC or the log label and
\* stop < start ends with an error, whatever step is, and solves no point.
C9_LogDescendingRejected ==
  ( /\ call.fn = "dc_analysis"
    /\ call.sweep_type \in {"LOGARITHMIC", dc_log_step}
    /\ call.stop < call.start
    /\ pc # "dc_analysis" )
    => (pc = "done" /\ outcome \notin {"running", "returned"} /\ dc = DcIdle)

\* C10: every call of op_analysis after the first of a sweep gets the solution
\* of the last solved point as x0 and obtains no guess.
C10_PreviousSolutionAsGuess ==
  \A i \in 2..Len(dc.op_calls) :
    /\ ~dc.op_calls[i].guessed
    /\ \A j \in 1..(i - 1) :
         (dc.op_calls[j].solved /\ \A k \in (j + 1)..(i - 1) : ~dc.op_calls[k].solved)
           => dc.op_calls[i].x0 = dc.op_calls[j].x

\* C11: the calls of op_analysis of a sweep are made for the values of the
\* axis in order, one call per value; when options.dc_sweep_skip_allowed is
\* off no call follows a call that returned None, when it is on the loop ends
\* only after every value of the axis had its call.
C11_EachValueOnce ==
  call.fn = "dc_analysis"
    => LET c == dc.op_calls
       IN /\ Len(c) <= dc.points
          /\ \A i \in 1..Len(c) : c[i].sweep_value = SweepValue(dc, i - 1)
          /\ \A i \in 1..Len(c) : \A j \in 1..Len(c) :
                i # j => c[i].sweep_value # c[j].sweep_value
          /\ ~options.dc_sweep_skip_allowed
                => \A i \in 1..(Len(c) - 1) : c[i].solved
          /\ (options.dc_sweep_skip_allowed /\ pc = "dc_exit")
                => Len(c) = dc.points

\* C11 witness: a sweep of three values with skipping allowed ended, its first
\* point was not solved and its last was
C11_Witness ==
  /\ call.fn = "dc_analysis"
  /\ pc = "dc_exit"
  /\ options.dc_sweep_skip_allowed
  /\ Len(dc.op_calls) = 3
  /\ ~dc.op_calls[1].solved
  /\ dc.op_calls[3].solved

\* C12: mdn_solver, for a circuit without nonlinear elements, returns after
\* one iteration, converged, with the x that solves mna*x + T = 0, whatever the
\* damping flags are.
C12_LinearExact ==
  (call.fn = "mdn_solver" /\ pc = "done" /\ outcome = "returned" /\ ~call.nonlinear)
    => /\ fn.iteration = 1
       /\ fn.converged
       /\ fn.mna * fn.x.val.num + fn.T * fn.x.val.den = 0

\* the voltage step of node n in dx, the step of ground being 0
NodeStep(dx, n) == IF n = 0 THEN 0 ELSE dx[n]

\* C13: with options.nl_voltages_lock on, the td get_td returns keeps the
\* damped voltage step over every pair of locked_nodes, ground pairs included,
\* within options.nl_voltages_lock_factor * Vth.
C13_DampingBound ==
  (call.fn = "get_td" /\ pc = "done" /\ options.nl_voltages_lock)
    => \A i \in 1..Len(call.locked_nodes) :
         LET pair == call.locked_nodes[i]
             step == Abs(NodeStep(call.dx, pair[1]) - NodeStep(call.dx, pair[2]))
         IN fn.td.num * step <= options.nl_voltages_lock_factor * fn.td.den

\* C13 witness: two pairs, the first between two nodes whose step of 5 Vth sets
\* td to 2/5, the second with a ground node
C13_Witness ==
  /\ call.fn = "get_td"
  /\ pc = "done"
  /\ options.nl_voltages_lock
  /\ Len(call.locked_nodes) = 2
  /\ call.locked_nodes[1][1] # 0
  /\ call.locked_nodes[1][2] # 0
  /\ call.locked_nodes[2][2] = 0
  /\ fn.td = Rat(options.nl_voltages_lock_factor, 5)

\* C14: custom_convergence_check passes, in normal and in debug mode alike,
\* exactly when every entry has |dx| <= er*|x| + ea and |residuum| <= eresiduum.
C14_BlockTest ==
  (call.fn = "custom_convergence_check" /\ pc = "done")
    => fn.result.ret =
         (\A i \in 1..Len(call.x) :
            /\ 1000 * Abs(call.dx[i]) <= call.er * Abs(call.x[i]) + 1000 * call.ea
            /\ Abs(call.residuum[i]) <= call.eresiduum)

\* the test of an entry in the mode convergence_check runs its blocks in
EntryPasses(x, dx, residuum, er, ea, eresiduum) ==
  /\ AllCloseEntry(x, x + dx, er, ea)
  /\ AllCloseEntry(residuum, 0, 0, eresiduum)

\* C15: convergence_check passes exactly when every entry before index
\* nv_minus_one passes with (ver, vea, iea) and every entry from it on passes
\* with (ier, iea, vea); a block without entries passes.
C15_SplitAndTolerances ==
  (call.fn = "convergence_check" /\ pc = "done")
    => fn.result.ret =
         (\A i \in 1..Len(call.x) :
            IF i <= call.nv_minus_one
              THEN EntryPasses(call.x[i], call.dx[i], call.residuum[i],
                               options.ver, options.vea, options.iea)
              ELSE EntryPasses(call.x[i], call.dx[i], call.residuum[i],
                               options.ier, options.iea, options.vea))

\* C15 witness: a voltage and a current, tolerances that differ, and a check
\* that passes although the voltage would not pass as a current
C15_Witness ==
  /\ call.fn = "convergence_check"
  /\ pc = "done"
  /\ Len(call.x) = 2
  /\ call.nv_minus_one = 1
  /\ fn.result.ret
  /\ ~EntryPasses(call.x[1], call.dx[1], call.residuum[1],
                  options.ier, options.iea, options.vea)

SolverRaisedInTurn ==
  /\ pc = "dc_solve_loop"
  /\ ds' # ds
  /\ ds'.passed
  /\ ds'.n_iter = 0
  /\ ds.x.kind # "userbad"

\* C17: a turn of the loop of dc_solve in which mdn_solver raised LinAlgError
\* or OverflowError ends as a turn without convergence does, at every
\* verbosity: the enabled strategy is marked failed and the loop goes on, or
\* dc_solve returns (None, None, False, tot_iterations); no exception leaves
\* dc_solve.
C17_SolverErrorsContained ==
  [][ SolverRaisedInTurn
        => /\ pc' \in {"dc_solve_loop", "dc_solve_return"}
           /\ \A s \in EnabledSet(ds) : StrategyOf(ds', s).failed
           /\ pc' = "dc_solve_return"
                => (ds'.x = XNone /\ ds'.error = "None" /\ ~ds'.converged) ]_vars


\* C18: generate_mna_and_N does not return a matrix pair when the element list
\* holds a device it cannot classify: an unknown linear element that is not
\* voltage defined, an hvsource, or an unknown voltage defined element.
C18_UnclassifiedFails ==
  (/\ pc = "done"
   /\ fn.name = "generate_mna_and_N"
   /\ \E k \in 1..Len(call.elements) :
        call.elements[k].kind \in {"other", "hvsource", "other_vde"})
    => outcome # "returned"

\* the keys of icdict that name a node of the circuit or a voltage defined
\* element of it
WellFormedKey(elements, label) ==
  \/ label.form = "V" /\ \E n \in 1..Len(NodesDict) : NodesDict[n] = label.target
  \/ /\ label.form = "I"
     /\ \E k \in 1..Len(VoltageDefined(elements)) :
          VoltageDefined(elements)[k].id = label.target

\* the entry of the reduced vector a key names, 0 for the voltage of node 0
NamedEntry(elements, label) ==
  IF label.form = "V"
    THEN (CHOOSE n \in 1..Len(NodesDict) : NodesDict[n] = label.target) - 1
    ELSE Len(NodesDict) - 1
           + (CHOOSE k \in 1..Len(VoltageDefined(elements)) :
                VoltageDefined(elements)[k].id = label.target)

\* the reduced vector the keys describe
NamedVector(elements, icdict) ==
  [j \in 1..(Len(NodesDict) - 1 + Len(VoltageDefined(elements))) |->
     IF \E k \in 1..Len(icdict) : NamedEntry(elements, icdict[k].label) = j
       THEN icdict[CHOOSE k \in 1..Len(icdict) :
                     NamedEntry(elements, icdict[k].label) = j].value
       ELSE 0]

\* C19: when every key of icdict is V(node) of a node of the circuit or
\* I(element) of a voltage defined element, whatever the length of the name,
\* build_x0_from_user_supplied_ic returns the reduced vector that holds the
\* supplied values in the named entries and 0 elsewhere; it raises the error of
\* the unrecognized label only when a key is of neither form.
C19_NamedEntriesSet ==
  (pc = "done" /\ fn.name = "build_x0_from_user_supplied_ic")
    => /\ (\A k \in 1..Len(call.icdict) :
             WellFormedKey(call.elements, call.icdict[k].label))
          => /\ outcome = "returned"
             /\ fn.x0 = NamedVector(call.elements, call.icdict)
       /\ fn.error = "Unrecognized label"
          => \E k \in 1..Len(call.icdict) : call.icdict[k].label.form = "other"

\* the elements that carry an initial condition
IcElements(elements) ==
  {k \in 1..Len(elements) :
     elements[k].kind \in {"capacitor", "diode", "inductor"} /\ elements[k].ic # 0}

\* the voltage of a node in a reduced vector, that of node 0 being 0
NodeVoltage(x, n) == IF n = 0 THEN 0 ELSE x[n]

\* C20: on a circuit whose only initial condition is that of one capacitor or
\* diode, modify_x0_for_ic returns an x0 with v(n1) = v(n2) + ic, the voltage of
\* node 0 being 0, and changes no entry but that of v(n1), also when n1 or n2 is
\* node 0; when the only initial condition is that of an inductor, only the
\* entry of its current changes, to ic.
C20_InitialConditionForced ==
  (/\ pc = "done"
   /\ fn.name = "modify_x0_for_ic"
   /\ Cardinality(IcElements(call.elements)) = 1)
    => LET elem == call.elements[CHOOSE k \in IcElements(call.elements) : TRUE]
           vde == VoltageDefined(call.elements)
           own == IF elem.kind = "inductor"
                    THEN Len(NodesDict) - 1 + (CHOOSE k \in 1..Len(vde) : vde[k] = elem)
                    ELSE elem.n1
       IN /\ Len(fn.xnew) = Len(call.x0)
          /\ \A j \in 1..Len(call.x0) : j # own => fn.xnew[j] = call.x0[j]
          /\ elem.kind = "inductor" => fn.xnew[own] = elem.ic
          /\ (elem.kind # "inductor" /\ elem.n1 # 0)
               => fn.xnew[own] = NodeVoltage(fn.xnew, elem.n2) + elem.ic

\* a turn of the loop of dc_solve made under Gmin stepping
GminTurn ==
  /\ LoopTurn
  /\ ~ds.standard_solving.enabled
  /\ ds.gmin_stepping.enabled

\* C21: under Gmin stepping the i-th call of mdn_solver (i from 0) gets
\* M + 10^e * I with e = floor(log10(options.gmin)) + i, the ascending sequence
\* from floor(log10(options.gmin)) to 0, and dc_solve leaves its loop converged
\* only after the call with e = 0 converged.
C21_GminLadderAscending ==
  [][ GminTurn
        => /\ ds'.mna_to_pass = Pow10(ds.gmin_stepping.index - options.gmin)
           /\ (pc' = "dc_solve_return" /\ ds'.converged)
                => ds'.mna_to_pass = Pow10(0)
    ]_vars

\* C22: when dc_solve returns converged with Gmin stepping the enabled
\* strategy, the last system handed to mdn_solver was M plus the Gmin of the
\* caller (zero when the caller gave none).
C22_GminSteppingEndsAtTarget ==
  (pc = "dc_solve_return" /\ ds.converged /\ ds.gmin_stepping.enabled)
    => ds.mna_to_pass = ds.Gmin

\* the stepping strategy enabled in frame f, "none" when none is
SteppingEnabled(f) ==
  IF f.source_stepping.enabled /\ ~f.standard_solving.enabled /\ ~f.gmin_stepping.enabled
    THEN "source"
  ELSE IF f.gmin_stepping.enabled /\ ~f.standard_solving.enabled THEN "gmin"
  ELSE "none"

\* C23: the index of a stepping strategy is 0 when dc_solve enters its loop;
\* in a turn of the loop under a stepping strategy whose call of mdn_solver
\* converges with the index not 9, the index of that strategy grows by one, the
\* strategy stays the enabled one and the solution is the x of the next call;
\* in no other turn, and for no other strategy, does an index change.
C23_SteppingIndex ==
  [][ /\ (pc = "dc_solve" /\ pc' = "dc_solve_loop")
          => ds'.gmin_stepping.index = 0 /\ ds'.source_stepping.index = 0
      /\ LoopTurn
          => LET s == SteppingEnabled(ds)
                 advance == /\ s # "none"
                            /\ StrategyOf(ds, s).index # LastStepIndex
                            /\ ds'.n_iter > 0
                            /\ ds'.x.kind = "sol"
             IN /\ \A t \in {"gmin", "source"} :
                     StrategyOf(ds', t).index =
                       StrategyOf(ds, t).index + (IF advance /\ t = s THEN 1 ELSE 0)
                /\ advance => /\ EnabledSet(ds') = {s}
                              /\ pc' = "dc_solve_loop"
                              /\ ds'.x = XSol(ds'.N_to_pass)
    ]_vars

\* C23 witness: source stepping went from index 0 to index 9
C23_Witness ==
  /\ pc = "dc_solve_loop"
  /\ ds.source_stepping.enabled
  /\ ds.source_stepping.index = LastStepIndex
  /\ ds.x.kind = "sol"

C28_AtMost21Invocations ==
  ds.invocations <= 1 + 2 * (LastStepIndex + 1)

\* C29: in the loop of dc_solve at most one strategy is enabled, none is
\* enabled and failed at once, none is enabled whose flag of options is off,
\* and a strategy that failed stays failed and is not enabled again.
C29_StrategyInvariants ==
  /\ [](pc \in {"dc_solve_loop", "dc_solve_return"}
          => /\ Cardinality(EnabledSet(ds)) <= 1
             /\ \A s \in {"standard", "gmin", "source"} :
                  /\ ~(StrategyOf(ds, s).enabled /\ StrategyOf(ds, s).failed)
                  /\ StrategyOf(ds, s).enabled => Configured(s))
  /\ [][ LoopTurn
           => \A s \in {"standard", "gmin", "source"} :
                StrategyOf(ds, s).failed
                  => StrategyOf(ds', s).failed /\ ~StrategyOf(ds', s).enabled
       ]_vars

\* C29 witness: two strategies have failed and the third is the enabled one
C29_Witness ==
  /\ pc = "dc_solve_loop"
  /\ ds.standard_solving.failed /\ ~ds.standard_solving.enabled
  /\ ds.gmin_stepping.failed /\ ~ds.gmin_stepping.enabled
  /\ ds.source_stepping.enabled /\ ~ds.source_stepping.failed
  /\ ds.source_stepping.index > 0

\* C30: whatever options.gmin in (0, 1), the index of Gmin stepping is a
\* position of the ladder get_solve_methods built whenever the ladder is read.
C30_IndexInsideLadder ==
  (pc = "dc_solve_loop" /\ ~ds.standard_solving.enabled /\ ds.gmin_stepping.enabled)
    => ds.gmin_stepping.index < Len(ds.gmin_stepping.factors)

\* C26: the check mdn_solver makes again in debug mode after a run that did
\* not converge, convergence_check(x, dx, residuo, nv - 1, debug=True), returns
\* one boolean per entry of x, voltages then currents, the i-th true exactly
\* when the i-th entry meets the criterion of its block.
C26_DiagnosticPerVariable ==
  (call.fn = "convergence_check" /\ pc = "done" /\ call.debug /\ ~fn.result.ret)
    => /\ Len(fn.result.all_check_results) = Len(call.x)
       /\ \A i \in 1..Len(fn.result.all_check_results) :
            fn.result.all_check_results[i] =
              IF i <= call.nv_minus_one
                THEN DebugEntry(call.x[i], call.dx[i], call.residuum[i],
                                options.ver, options.vea, options.iea)
                ELSE DebugEntry(call.x[i], call.dx[i], call.residuum[i],
                                options.ier, options.iea, options.vea)

\* the pairs of locked_nodes whose voltage step, the voltage of node 0 being
\* 0, exceeds nl_voltages_lock_factor * Vth
ExceedingPairs(dx, locked_nodes) ==
  {k \in 1..Len(locked_nodes) :
     Abs(NodeStep(dx, locked_nodes[k][1]) - NodeStep(dx, locked_nodes[k][2]))
       > options.nl_voltages_lock_factor}

\* C27: get_td returns min(td1, td2), a value in (0, 1]: td1 is 0.01 for
\* 0 <= n < 10, 0.1 for 10 <= n < 20 and 1 otherwise under nr_damp_first_iters,
\* and 1 when the flag is off or n < 0; td2 is the least, over the locked pairs
\* whose step exceeds the limit, of nl_voltages_lock_factor * Vth / step, and 1
\* when nl_voltages_lock is off or no pair exceeds the limit.
C27_DampingIsMinimum ==
  (call.fn = "get_td" /\ pc = "done")
    => LET td1 == IF ~options.nr_damp_first_iters \/ call.n < 0 THEN Rat(1, 1)
                  ELSE IF call.n < 10 THEN Rat(1, 100)
                  ELSE IF call.n < 20 THEN Rat(1, 10)
                  ELSE Rat(1, 1)
           pairs == IF options.nl_voltages_lock
                      THEN ExceedingPairs(call.dx, call.locked_nodes) ELSE {}
           step(k) == Abs(NodeStep(call.dx, call.locked_nodes[k][1])
                            - NodeStep(call.dx, call.locked_nodes[k][2]))
           td2 == IF pairs = {} THEN Rat(1, 1)
                  ELSE Rat(options.nl_voltages_lock_factor,
                           step(CHOOSE k \in pairs : \A j \in pairs : step(j) <= step(k)))
           least == IF RatLess(td2, td1) THEN td2 ELSE td1
       IN /\ fn.td.num * least.den = least.num * fn.td.den
          /\ 0 < fn.td.num /\ fn.td.num <= fn.td.den

\* C25: the k-th voltage defined element of circ.elements (k from 0) owns the
\* row N_nodes - 1 + k of the reduced system in each of the functions:
\* generate_mna_and_N adds the rows after those of the nodes in the order of the
\* list, dc_solve writes the time dependent part of a voltage source into that
\* row of Tt and into no other, build_x0_from_user_supplied_ic writes the value
\* of I(element) into that entry, and modify_x0_for_ic the ic of an inductor.
C25_BranchRowIndex ==
  pc = "done" /\ outcome = "returned"
    => LET vde == VoltageDefined(call.elements)
           row(k) == Len(NodesDict) - 1 + k
       IN /\ fn.name = "generate_mna_and_N"
               => /\ fn.size - 1 = row(Len(vde))
                  /\ \A k \in 1..Len(vde) : fn.rows[k] = vde[k].id
          /\ (fn.name = "dc_solve" /\ ~call.skip_Tt)
               => /\ Len(fn.Tt) = row(Len(vde))
                  /\ \A k \in 1..Len(vde) :
                       fn.Tt[row(k)] =
                         IF vde[k].kind = "vsource" /\ vde[k].is_timedependent
                           THEN <<<<"-", vde[k].id>>>> ELSE <<>>
          /\ fn.name = "build_x0_from_user_supplied_ic"
               => /\ Len(fn.x0) = row(Len(vde))
                  /\ \A k \in 1..Len(vde) : \A j \in 1..Len(call.icdict) :
                       (call.icdict[j].label.form = "I"
                          /\ call.icdict[j].label.target = vde[k].id)
                         => fn.x0[row(k)] = call.icdict[j].value
          /\ fn.name = "modify_x0_for_ic"
               => \A k \in 1..Len(vde) :
                    (vde[k].kind = "inductor" /\ vde[k].ic # 0)
                      => fn.xnew[row(k)] = vde[k].ic

\* C25 witness: a time dependent voltage source comes second among the
\* voltage defined elements of the list, and dc_solve has written its row of Tt
C25_Witness ==
  /\ pc = "done"
  /\ fn.name = "dc_solve"
  /\ ~call.skip_Tt
  /\ Len(VoltageDefined(call.elements)) = 2
  /\ VoltageDefined(call.elements)[2].is_timedependent
  /\ fn.Tt[Len(NodesDict) + 1] # <<>>

====
